---- MODULE Spec2Model ----
(***************************************************************************)
(* Model of add_local_modules.py: main() scans local/ for *.zip files,     *)
(* extract_module_id() reads the module id out of each archive's           *)
(* module.prop, and add_track() runs "cli.py track --add" for it.          *)
(*                                                                         *)
(* Python strings are modelled as sequences of one-character strings, so   *)
(* that strip, startswith, split, splitlines and the f-string              *)
(* concatenations are computed rather than assumed.                        *)
(***************************************************************************)
EXTENDS Integers, Sequences, FiniteSets, TLC

\* ------------------------------------------------------------------ bounds
\* Largest number of *.zip entries the modelled local/ directory holds.
MaxFiles == 2
\* Largest number of characters a generated module.prop text holds (ParseSpec).
MaxLen == 8

\* ----------------------------------------------------------------- strings
\* Python's None where a string may stand: a value no character sequence equals.
None == <<"None">>

\* Characters str.strip() removes and the line boundaries str.splitlines()
\* recognises, restricted to the characters the model's texts use.
Whitespace == {" ", "\t", "\n", "\r"}
LineBreaks == {"\n", "\r"}

S_idEq == <<"i", "d", "=">>
S_updateTo == <<"u", "p", "d", "a", "t", "e", "_", "t", "o", "=">>
S_changelog == <<"c", "h", "a", "n", "g", "e", "l", "o", "g", "=">>
S_dotZip == <<".", "z", "i", "p">>

\* s[from..] (1-based, "" when from is past the end)
Tail_(s, from) == SubSeq(s, from, Len(s))

\* str.startswith(prefix)
startswith(s, prefix) ==
    /\ Len(s) >= Len(prefix)
    /\ SubSeq(s, 1, Len(prefix)) = prefix

\* str.endswith(suffix)
endswith(s, suffix) ==
    /\ Len(s) >= Len(suffix)
    /\ SubSeq(s, Len(s) - Len(suffix) + 1, Len(s)) = suffix

\* str.lstrip() and str.rstrip()
RECURSIVE lstrip(_)
lstrip(s) ==
    IF s # <<>> /\ Head(s) \in Whitespace THEN lstrip(Tail(s)) ELSE s

RECURSIVE rstrip(_)
rstrip(s) ==
    IF s # <<>> /\ s[Len(s)] \in Whitespace THEN rstrip(SubSeq(s, 1, Len(s) - 1)) ELSE s

\* str.strip(): drop leading and trailing whitespace
strip(s) == rstrip(lstrip(s))

\* str.split("=", 1)[1]: everything after the first "="; the caller has
\* checked startswith("id="), so a "=" exists.
splitAfterFirstEq(s) ==
    LET eqs == {i \in 1..Len(s) : s[i] = "="}
        first == CHOOSE i \in eqs : \A j \in eqs : i <= j
    IN  Tail_(s, first + 1)

\* Index of the first line break of s at or after position i, 0 if none
RECURSIVE firstBreak(_, _)
firstBreak(s, i) ==
    IF i > Len(s) THEN 0
    ELSE IF s[i] \in LineBreaks THEN i
    ELSE firstBreak(s, i + 1)

\* str.splitlines(): split at "\n", "\r" and "\r\n"; no empty last line after
\* a final line break.
RECURSIVE splitlines(_)
splitlines(s) ==
    IF s = <<>> THEN <<>>
    ELSE LET b == firstBreak(s, 1)
             skip == IF s[b] = "\r" /\ b < Len(s) /\ s[b + 1] = "\n" THEN 2 ELSE 1
         IN  IF b = 0 THEN <<s>>
             ELSE <<SubSeq(s, 1, b - 1)>> \o splitlines(Tail_(s, b + skip))

\* ---------------------------------------------- extract_module_id: parsing
\* The module id one line yields: None unless the trimmed line starts with
\* "id=" and the trimmed text after the first "=" is non-empty.
lineId(rawline) ==
    LET line == strip(rawline)
    IN  IF startswith(line, S_idEq)
        THEN LET module_id == strip(splitAfterFirstEq(line))
             IN  IF module_id # <<>> THEN module_id ELSE None
        ELSE None

\* Variant of parseLines: the first "id=" line decides, an empty value there
\* ends the search.
RECURSIVE parseLinesFirstIdOnly(_)
parseLinesFirstIdOnly(lines) ==
    IF lines = <<>> THEN None
    ELSE IF startswith(strip(Head(lines)), S_idEq) THEN lineId(Head(lines))
    ELSE parseLinesFirstIdOnly(Tail(lines))

\* The for loop over module_prop.splitlines(): returns at the first line
\* whose lineId is truthy, None when the loop runs out.
RECURSIVE parseLines(_)
parseLines(lines) ==
    IF lines = <<>> THEN None
    ELSE IF lineId(Head(lines)) # None THEN lineId(Head(lines))
    ELSE parseLines(Tail(lines))

parse_module_prop(module_prop) == parseLines(splitlines(module_prop))


\* ------------------------------------------------------------- file system
S_local == <<"l", "o", "c", "a", "l">>
S_python == <<"p", "y", "t", "h", "o", "n">>
S_cli == <<"c", "l", "i", ".", "p", "y">>
S_track == <<"t", "r", "a", "c", "k">>
S_add == <<"-", "-", "a", "d", "d">>

E_script == "META-INF/com/google/android/updater-script"
E_binary == "META-INF/com/google/android/update-binary"
E_prop == "module.prop"
E_other == "system/placeholder"

Stems == <<"a", "b", "c", "d", "e", "f">>
\* Names of the entries local/ may hold: a.zip, b.zip, ... and one entry
\* that does not match *.zip; local/ is empty or holds that entry and any of
\* the others.
ZipNames == {<<Stems[i]>> \o S_dotZip : i \in 1..MaxFiles}
OtherNames == {<<"a", "z", "i", "p">>}

\* Texts of module.prop the archives of the model hold.
T_plain == <<"i", "d", "=", "m", "=", "k">>
T_second == <<"i", "d", "=", " ", "\n", " ", "i", "d", "=", "n", " ", "\r", "\n", "i", "d", "=", "m">>
T_noid == <<"i", "d", " ", "=", "m", "\n", "x", "=", "i", "d", "=", "\r", "i", "d", "=", " ", " ">>
PropTexts == {T_plain, T_second, T_noid}

NoData == [utf8 |-> TRUE, text |-> <<>>]
BadData == [utf8 |-> FALSE, text |-> <<>>]
PropData == {BadData} \cup {[utf8 |-> TRUE, text |-> t] : t \in PropTexts}

\* What a *.zip entry of local/ is: something ZipFile() cannot open
\* (corrupt, a directory, unreadable), or an archive with a set of member
\* names and the bytes of its module.prop.
Archives ==
    {[corrupt |-> TRUE, names |-> {}, data |-> NoData]}
    \cup {[corrupt |-> FALSE, names |-> n, data |-> NoData] :
             n \in {{E_script, E_binary, E_other}}}
    \cup {[corrupt |-> FALSE, names |-> n, data |-> [utf8 |-> TRUE, text |-> T_plain]] :
             n \in {{E_script, E_prop}, {E_binary, E_prop, E_other}}}
    \cup {[corrupt |-> FALSE, names |-> {E_script, E_binary, E_prop, E_other}, data |-> d] :
             d \in PropData}

\* Path("local") / name, and Path.name
PathOf(name) == <<S_local, name>>
name_(path) == path[Len(path)]

\* Path.glob("*.zip"): the entries whose name ends in ".zip"
globZip(es) == {e \in es : endswith(e, S_dotZip)}

\* All enumeration orders of a finite set, as sequences without repetition
Orderings(S) ==
    {q \in [1..Cardinality(S) -> S] : \A i, j \in 1..Cardinality(S) : q[i] = q[j] => i = j}

\* ------------------------------------------------------------------- state
VARIABLES
    dirExists,    \* whether local/ exists
    entries,      \* names of the entries of local/
    zips,         \* name of a *.zip entry -> what it holds (never mutated)
    pc,           \* position of main() and of the function it is in
    zip_files,    \* main: list(local_dir.glob("*.zip"))
    idx,          \* main: number of items the for loop has taken
    zip_file,     \* main: the loop variable (a path), <<>> before the loop
    added_count,  \* main: added_count
    module_id,    \* main: result of extract_module_id, None for Python None
    openZips,     \* paths of the ZipFile objects currently open
    module_prop,  \* extract_module_id: decoded text of module.prop
    cmd,          \* add_track: the argument list
    proc,         \* the running subprocess's argument list, <<>> when none runs
    out,          \* console output, one record per print
    log,          \* history of archive and subprocess operations
    exit          \* <<r>> once main() has returned r, <<>> while it runs

vars == <<dirExists, entries, zips, pc, zip_files, idx, zip_file, added_count,
          module_id, openZips, module_prop, cmd, proc, out, log, exit>>

fsVars == <<dirExists, entries, zips>>

Msg(tag, text, n, k) == [tag |-> tag, text |-> text, n |-> n, k |-> k]
Ev(op, path, c) == [op |-> op, path |-> path, cmd |-> c]

print(m) == out' = Append(out, m)
record(e) == log' = Append(log, e)

\* Results subprocess.run can return: exit code, and whether the captured
\* stdout / stderr are non-blank.
Results ==
    {[returncode |-> 0, stdout |-> TRUE, stderr |-> FALSE],
     [returncode |-> 1, stdout |-> FALSE, stderr |-> TRUE]}

Init ==
    /\ dirExists \in BOOLEAN
    /\ entries \in IF dirExists
                   THEN {{}} \cup {Z \cup OtherNames : Z \in SUBSET ZipNames}
                   ELSE {{}}
    /\ zips \in [globZip(entries) -> Archives]
    /\ pc = "main"
    /\ zip_files = <<>>
    /\ idx = 0
    /\ zip_file = <<>>
    /\ added_count = 0
    /\ module_id = None
    /\ openZips = {}
    /\ module_prop = <<>>
    /\ cmd = <<>>
    /\ proc = <<>>
    /\ out = <<>>
    /\ log = <<>>
    /\ exit = <<>>

\* Variant of CheckDir: a missing local/ is reported but returns 0.
CheckDirReturn0 ==
    /\ pc = "main"
    /\ IF dirExists
       THEN /\ pc' = "glob"
            /\ UNCHANGED <<out, exit>>
       ELSE /\ print(Msg("NoLocalDir", <<>>, 0, 0))
            /\ exit' = <<0>>
            /\ pc' = "done"
    /\ UNCHANGED <<fsVars, zip_files, idx, zip_file, added_count, module_id,
                   openZips, module_prop, cmd, proc, log>>

\* -------------------------------------------------------------------- main
\* if not local_dir.exists(): print(...); return 1
CheckDir ==
    /\ pc = "main"
    /\ IF dirExists
       THEN /\ pc' = "glob"
            /\ UNCHANGED <<out, exit>>
       ELSE /\ print(Msg("NoLocalDir", <<>>, 0, 0))
            /\ exit' = <<1>>
            /\ pc' = "done"
    /\ UNCHANGED <<fsVars, zip_files, idx, zip_file, added_count, module_id,
                   openZips, module_prop, cmd, proc, log>>

\* Variant of Glob: an empty scan is treated as an error and returns 1.
GlobEmptyExit1 ==
    /\ pc = "glob"
    /\ \E order \in Orderings(globZip(entries)) :
          zip_files' = [i \in 1..Len(order) |-> PathOf(order[i])]
    /\ IF zip_files' = <<>>
       THEN /\ print(Msg("NoZipFiles", <<>>, 0, 0))
            /\ exit' = <<1>>
            /\ pc' = "done"
            /\ UNCHANGED added_count
       ELSE /\ print(Msg("Found", <<>>, Len(zip_files'), 0))
            /\ added_count' = 0
            /\ pc' = "for"
            /\ UNCHANGED exit
    /\ UNCHANGED <<fsVars, idx, zip_file, module_id, openZips, module_prop,
                   cmd, proc, log>>

\* zip_files = list(local_dir.glob("*.zip")) in the order the file system
\* enumerates them; empty: print and return 0; else print the count and set
\* added_count = 0.
Glob ==
    /\ pc = "glob"
    /\ \E order \in Orderings(globZip(entries)) :
          zip_files' = [i \in 1..Len(order) |-> PathOf(order[i])]
    /\ IF zip_files' = <<>>
       THEN /\ print(Msg("NoZipFiles", <<>>, 0, 0))
            /\ exit' = <<0>>
            /\ pc' = "done"
            /\ UNCHANGED added_count
       ELSE /\ print(Msg("Found", <<>>, Len(zip_files'), 0))
            /\ added_count' = 0
            /\ pc' = "for"
            /\ UNCHANGED exit
    /\ UNCHANGED <<fsVars, idx, zip_file, module_id, openZips, module_prop,
                   cmd, proc, log>>

\* for zip_file in zip_files: print("Processing ..."), or leave the loop
ForNext ==
    /\ pc = "for"
    /\ IF idx < Len(zip_files)
       THEN /\ idx' = idx + 1
            /\ zip_file' = zip_files[idx + 1]
            /\ print(Msg("Processing", name_(zip_files[idx + 1]), 0, 0))
            /\ pc' = "extract"
       ELSE /\ pc' = "summary"
            /\ UNCHANGED <<idx, zip_file, out>>
    /\ UNCHANGED <<fsVars, zip_files, added_count, module_id, openZips,
                   module_prop, cmd, proc, log, exit>>

\* ------------------------------------------------------- extract_module_id
mainVars == <<zip_files, idx, zip_file, added_count, exit>>

\* Variant of OpenZip: no except clause, the exception ends main() with the
\* interpreter's status 1.
OpenZipUncaught ==
    /\ pc = "extract"
    /\ IF zips[name_(zip_file)].corrupt
       THEN /\ log' = Append(log, Ev("openfail", zip_file, <<>>))
            /\ exit' = <<1>>
            /\ pc' = "done"
            /\ UNCHANGED <<openZips, out, module_id>>
       ELSE /\ log' = Append(log, Ev("open", zip_file, <<>>))
            /\ openZips' = openZips \cup {zip_file}
            /\ pc' = "markers"
            /\ UNCHANGED <<out, module_id, exit>>
    /\ UNCHANGED <<fsVars, zip_files, idx, zip_file, added_count, module_prop, cmd, proc>>

\* with ZipFile(zip_path, 'r') as zip_file: an entry that is no readable
\* archive raises, and the except clause prints and returns None.
OpenZip ==
    /\ pc = "extract"
    /\ IF zips[name_(zip_file)].corrupt
       THEN /\ record(Ev("openfail", zip_file, <<>>))
            /\ print(Msg("ErrorReading", name_(zip_file), 0, 0))
            /\ module_id' = None
            /\ pc' = "if"
            /\ UNCHANGED openZips
       ELSE /\ record(Ev("open", zip_file, <<>>))
            /\ openZips' = openZips \cup {zip_file}
            /\ pc' = "markers"
            /\ UNCHANGED <<out, module_id>>
    /\ UNCHANGED <<fsVars, mainVars, module_prop, cmd, proc>>

\* Leaving the with block, by return or by exception, closes the archive.
closeZip(path) ==
    /\ openZips' = openZips \ {path}
    /\ record(Ev("close", path, <<>>))

\* return None from inside the with block, after a warning
returnNone(tag) ==
    /\ print(Msg(tag, name_(zip_file), 0, 0))
    /\ closeZip(zip_file)
    /\ module_id' = None
    /\ pc' = "if"

\* Variant of CheckMarkers: "and" for "or", so one marker is enough.
CheckMarkersAnd ==
    /\ pc = "markers"
    /\ IF E_script \notin zips[name_(zip_file)].names
          /\ E_binary \notin zips[name_(zip_file)].names
       THEN returnNone("NotAModule")
       ELSE /\ pc' = "prop"
            /\ UNCHANGED <<out, openZips, log, module_id>>
    /\ UNCHANGED <<fsVars, mainVars, module_prop, cmd, proc>>

\* if updater-script not in namelist() or update-binary not in namelist()
CheckMarkers ==
    /\ pc = "markers"
    /\ IF E_script \notin zips[name_(zip_file)].names
          \/ E_binary \notin zips[name_(zip_file)].names
       THEN returnNone("NotAModule")
       ELSE /\ pc' = "prop"
            /\ UNCHANGED <<out, openZips, log, module_id>>
    /\ UNCHANGED <<fsVars, mainVars, module_prop, cmd, proc>>

\* if "module.prop" not in zip_file.namelist()
CheckProp ==
    /\ pc = "prop"
    /\ IF E_prop \notin zips[name_(zip_file)].names
       THEN returnNone("NoModuleProp")
       ELSE /\ pc' = "read"
            /\ UNCHANGED <<out, openZips, log, module_id>>
    /\ UNCHANGED <<fsVars, mainVars, module_prop, cmd, proc>>

\* Variant of ReadProp: no with block, so the exception path leaves the
\* archive open.
ReadPropLeak ==
    /\ pc = "read"
    /\ IF zips[name_(zip_file)].data.utf8
       THEN /\ module_prop' = zips[name_(zip_file)].data.text
            /\ pc' = "parse"
            /\ UNCHANGED <<out, openZips, log, module_id>>
       ELSE /\ print(Msg("ErrorReading", name_(zip_file), 0, 0))
            /\ module_id' = None
            /\ pc' = "if"
            /\ UNCHANGED <<module_prop, openZips, log>>
    /\ UNCHANGED <<fsVars, mainVars, cmd, proc>>

\* module_prop = zip_file.read("module.prop").decode("utf-8"); bytes that
\* are no UTF-8 raise, the with block closes the archive and the except
\* clause prints and returns None.
ReadProp ==
    /\ pc = "read"
    /\ IF zips[name_(zip_file)].data.utf8
       THEN /\ module_prop' = zips[name_(zip_file)].data.text
            /\ pc' = "parse"
            /\ UNCHANGED <<out, openZips, log, module_id>>
       ELSE /\ returnNone("ErrorReading")
            /\ UNCHANGED module_prop
    /\ UNCHANGED <<fsVars, mainVars, cmd, proc>>

\* The for loop over the lines: return the id found, or warn and return None.
ParseProp ==
    /\ pc = "parse"
    /\ IF parse_module_prop(module_prop) # None
       THEN /\ module_id' = parse_module_prop(module_prop)
            /\ closeZip(zip_file)
            /\ pc' = "if"
            /\ UNCHANGED out
       ELSE returnNone("NoIdLine")
    /\ UNCHANGED <<fsVars, mainVars, module_prop, cmd, proc>>

\* --------------------------------------------------------------- add_track
\* Python truthiness of an Optional[str]
truthy(x) == x # None /\ x # <<>>

\* str(path) of a relative path: its parts joined by "/"
pathStr(path) == path[1] \o <<"/">> \o path[2]

\* Variant of trackFilename: the whole path, str(zip_file), is passed.
trackFilenameFullPath(path) == pathStr(path)

\* The second argument main passes to add_track: zip_file.name
trackFilename(path) == name_(path)

\* cmd = [sys.executable, "cli.py", "track", "--add", f"id={module_id}",
\*        f"update_to={zip_filename}", "changelog="]
add_track_cmd(mid, zip_filename) ==
    <<S_python, S_cli, S_track, S_add,
      S_idEq \o mid, S_updateTo \o zip_filename, S_changelog>>

\* if module_id: print("Found module ID"), call add_track;
\* else: print("Skipping ...") and go to the next file
IfModuleId ==
    /\ pc = "if"
    /\ IF truthy(module_id)
       THEN /\ print(Msg("FoundId", module_id, 0, 0))
            /\ pc' = "add_track"
            /\ UNCHANGED log
       ELSE /\ print(Msg("Skipping", name_(zip_file), 0, 0))
            /\ record(Ev("skip", zip_file, <<>>))
            /\ pc' = "for"
    /\ UNCHANGED <<fsVars, mainVars, module_id, openZips, module_prop, cmd, proc>>

\* add_track: build cmd and print "Executing: ..."
BuildCmd ==
    /\ pc = "add_track"
    /\ cmd' = add_track_cmd(module_id, trackFilename(zip_file))
    /\ print(Msg("Executing", cmd'[5] \o <<" ">> \o cmd'[6] \o <<" ">> \o cmd'[7], 0, 0))
    /\ record(Ev("add_track", zip_file, cmd'))
    /\ pc' = "run"
    /\ UNCHANGED <<fsVars, mainVars, module_id, openZips, module_prop, proc>>

\* Variant of RunRegistrar: the process is started and not waited for.
RunRegistrarAsync ==
    /\ pc = "run"
    /\ \E launched \in BOOLEAN :
          IF launched
          THEN /\ proc' = cmd
               /\ record(Ev("start", zip_file, cmd))
               /\ pc' = "count"
               /\ UNCHANGED out
          ELSE /\ record(Ev("launchfail", zip_file, cmd))
               /\ print(Msg("ErrorExecuting", module_id, 0, 0))
               /\ pc' = "count"
               /\ UNCHANGED proc
    /\ UNCHANGED <<fsVars, mainVars, module_id, openZips, module_prop, cmd>>

\* subprocess.run(cmd, ...): the process starts, or launching it raises and
\* the except clause prints; add_track then returns.
RunRegistrar ==
    /\ pc = "run"
    /\ \E launched \in BOOLEAN :
          IF launched
          THEN /\ proc' = cmd
               /\ record(Ev("start", zip_file, cmd))
               /\ pc' = "wait"
               /\ UNCHANGED out
          ELSE /\ record(Ev("launchfail", zip_file, cmd))
               /\ print(Msg("ErrorExecuting", module_id, 0, 0))
               /\ pc' = "count"
               /\ UNCHANGED proc
    /\ UNCHANGED <<fsVars, mainVars, module_id, openZips, module_prop, cmd>>

\* What add_track prints for a result: success or failure, then the
\* non-blank captured streams (stderr only on failure).
resultMsgs(mid, result) ==
    (IF result.returncode = 0
     THEN <<Msg("Successfully", mid, 0, 0)>>
     ELSE <<Msg("Failed", mid, 0, 0)>>
          \o (IF result.stderr THEN <<Msg("Error", mid, 0, 0)>> ELSE <<>>))
    \o (IF result.stdout THEN <<Msg("Output", mid, 0, 0)>> ELSE <<>>)

\* subprocess.run returns when the process has exited; add_track prints the
\* outcome and returns.
RegistrarExit ==
    /\ pc = "wait"
    /\ \E result \in Results :
          /\ out' = out \o resultMsgs(module_id, result)
          /\ record(Ev("exit", zip_file, proc))
    /\ proc' = <<>>
    /\ pc' = "count"
    /\ UNCHANGED <<fsVars, mainVars, module_id, openZips, module_prop, cmd>>

\* Variant of CountAdded: "=" for "+=".
CountAddedAssign ==
    /\ pc = "count"
    /\ added_count' = 1
    /\ record(Ev("count", zip_file, <<>>))
    /\ pc' = "for"
    /\ UNCHANGED <<fsVars, zip_files, idx, zip_file, exit, module_id, openZips,
                   module_prop, cmd, proc, out>>

\* added_count += 1
CountAdded ==
    /\ pc = "count"
    /\ added_count' = added_count + 1
    /\ record(Ev("count", zip_file, <<>>))
    /\ pc' = "for"
    /\ UNCHANGED <<fsVars, zip_files, idx, zip_file, exit, module_id, openZips,
                   module_prop, cmd, proc, out>>

\* print(f"Processed {len(zip_files)} files, added {added_count} tracks")
Summary ==
    /\ pc = "summary"
    /\ print(Msg("Summary", <<>>, Len(zip_files), added_count))
    /\ pc' = "hints"
    /\ UNCHANGED <<fsVars, mainVars, module_id, openZips, module_prop, cmd, proc, log>>

\* Variant of Hints: the hints are printed whatever added_count is.
HintsAlways ==
    /\ pc = "hints"
    /\ out' = out \o <<Msg("HintSync", <<>>, 0, 0), Msg("HintIndex", <<>>, 0, 0)>>
    /\ exit' = <<0>>
    /\ pc' = "done"
    /\ UNCHANGED <<fsVars, zip_files, idx, zip_file, added_count, module_id,
                   openZips, module_prop, cmd, proc, log>>

\* if added_count > 0: print the sync hint, then the index hint; return 0
Hints ==
    /\ pc = "hints"
    /\ IF added_count > 0
       THEN out' = out \o <<Msg("HintSync", <<>>, 0, 0), Msg("HintIndex", <<>>, 0, 0)>>
       ELSE UNCHANGED out
    /\ exit' = <<0>>
    /\ pc' = "done"
    /\ UNCHANGED <<fsVars, zip_files, idx, zip_file, added_count, module_id,
                   openZips, module_prop, cmd, proc, log>>

Next ==
    \/ CheckDir
    \/ Glob
    \/ ForNext
    \/ OpenZip
    \/ CheckMarkers
    \/ CheckProp
    \/ ReadProp
    \/ ParseProp
    \/ IfModuleId
    \/ BuildCmd
    \/ RunRegistrar
    \/ RegistrarExit
    \/ CountAdded
    \/ Summary
    \/ Hints

Spec == Init /\ [][Next]_vars

\* ------------------------------------------------ parsing generated texts
\* A second specification for extract_module_id alone: local/ holds one
\* archive with both markers, whose module.prop text is first put together
\* from the pieces below, up to MaxLen characters; main then runs up to the
\* end of the if statement for that file.
Tokens == {S_idEq, <<"m">>, <<" ">>, <<"\n">>}

TheZip == <<Stems[1]>> \o S_dotZip
WithText(text) ==
    [corrupt |-> FALSE, names |-> {E_script, E_binary, E_prop},
     data |-> [utf8 |-> TRUE, text |-> text]]

ParseInit ==
    /\ dirExists = TRUE
    /\ entries = {TheZip}
    /\ zips = [n \in {TheZip} |-> WithText(<<>>)]
    /\ pc = "edit"
    /\ zip_files = <<>>
    /\ idx = 0
    /\ zip_file = <<>>
    /\ added_count = 0
    /\ module_id = None
    /\ openZips = {}
    /\ module_prop = <<>>
    /\ cmd = <<>>
    /\ proc = <<>>
    /\ out = <<>>
    /\ log = <<>>
    /\ exit = <<>>

\* The file system before the run: one more piece of module.prop
AppendToken ==
    /\ pc = "edit"
    /\ \E t \in Tokens :
          /\ Len(zips[TheZip].data.text) + Len(t) <= MaxLen
          /\ zips' = [n \in {TheZip} |-> WithText(zips[TheZip].data.text \o t)]
    /\ UNCHANGED <<dirExists, entries, mainVars, pc, module_id, openZips,
                   module_prop, cmd, proc, out, log>>

\* The run starts on the file system as it is now.
StartRun ==
    /\ pc = "edit"
    /\ pc' = "main"
    /\ UNCHANGED <<fsVars, mainVars, module_id, openZips, module_prop, cmd,
                   proc, out, log>>

\* main up to the loop's first step, then extract_module_id and the if
\* statement
ParseNext ==
    \/ AppendToken
    \/ StartRun
    \/ CheckDir
    \/ Glob
    \/ (pc = "for" /\ idx = 0 /\ ForNext)
    \/ OpenZip
    \/ CheckMarkers
    \/ CheckProp
    \/ ReadProp
    \/ ParseProp
    \/ IfModuleId

ParseSpec == ParseInit /\ [][ParseNext]_vars

\* ------------------------------------------------- vocabulary of the claims
\* Positions of the log's events with an operation among ops, for a path
EventsAt(ops, path) == {i \in 1..Len(log) : log[i].op \in ops /\ log[i].path = path}
EventsOf(ops) == {i \in 1..Len(log) : log[i].op \in ops}
OutAt(tags) == {i \in 1..Len(out) : out[i].tag \in tags}

ScannedPaths == {PathOf(n) : n \in DOMAIN zips}
ArchiveAt(path) == zips[path[2]]

\* Position of a path in the scan order
PosOf(path) == CHOOSE i \in 1..Len(zip_files) : zip_files[i] = path

HasMarkers(a) == E_script \in a.names /\ E_binary \in a.names

\* Some line of the text, trimmed, begins with "id=" and has a non-blank
\* remainder: stated on the characters, independently of lineId.
TrimmedLine(text, i) == strip(splitlines(text)[i])
IdLines(text) ==
    LET lines == splitlines(text)
    IN  {i \in 1..Len(lines) :
            LET l == strip(lines[i])
            IN  /\ Len(l) >= 3
                /\ l[1] = "i" /\ l[2] = "d" /\ l[3] = "="}
IdValue(text, i) == strip(Tail_(TrimmedLine(text, i), 4))
NonEmptyIdLines(text) ==
    LET lines == splitlines(text)
    IN  {i \in 1..Len(lines) :
            LET l == strip(lines[i])
            IN  /\ Len(l) >= 3
                /\ l[1] = "i" /\ l[2] = "d" /\ l[3] = "="
                /\ strip(Tail_(l, 4)) # <<>>}
MinOf(S) == CHOOSE i \in S : \A j \in S : i <= j

\* An archive extract_module_id returns an identifier for
Valid(a) ==
    /\ ~a.corrupt
    /\ HasMarkers(a)
    /\ E_prop \in a.names
    /\ a.data.utf8
    /\ NonEmptyIdLines(a.data.text) # {}

ValidPaths == {p \in ScannedPaths : Valid(ArchiveAt(p))}

\* C1: in any run the registrar is invoked at most once per archive, and
\* only for an archive that holds both marker entries and a module.prop
\* whose text yields a non-empty id; an archive missing a marker or
\* module.prop gets no registrar invocation.
C1_RegisteredOnlyIfValidAtMostOnce ==
    \A p \in ScannedPaths :
        /\ Cardinality(EventsAt({"add_track"}, p)) <= 1
        /\ Cardinality(EventsAt({"start", "launchfail"}, p)) <= 1
        /\ EventsAt({"add_track", "start", "launchfail"}, p) # {} =>
              /\ ~ArchiveAt(p).corrupt
              /\ E_script \in ArchiveAt(p).names
              /\ E_binary \in ArchiveAt(p).names
              /\ E_prop \in ArchiveAt(p).names
              /\ NonEmptyIdLines(ArchiveAt(p).data.text) # {}

\* A finished run over two archives: one registered, the other lacking a
\* marker entry and skipped.
C1_Witness ==
    /\ pc = "done"
    /\ \E p, q \in ScannedPaths :
          /\ EventsAt({"add_track"}, p) # {}
          /\ ~HasMarkers(ArchiveAt(q))
          /\ E_prop \in ArchiveAt(q).names
          /\ EventsAt({"skip"}, q) # {}

\* C2: a finished run over N >= 1 archives, K of them valid, prints the
\* summary "Processed N files, added K tracks" and has invoked the registrar
\* exactly K times, whatever the order of enumeration.
C2_SummaryCounts ==
    (pc = "done" /\ zip_files # <<>>) =>
        /\ Cardinality(OutAt({"Summary"})) = 1
        /\ \A i \in OutAt({"Summary"}) :
              /\ out[i].n = Cardinality(ScannedPaths)
              /\ out[i].k = Cardinality(ValidPaths)
        /\ Cardinality(EventsOf({"add_track"})) = Cardinality(ValidPaths)
        /\ Cardinality(EventsOf({"start", "launchfail"})) = Cardinality(ValidPaths)

\* A finished run where an invalid archive was enumerated before a valid one.
C2_Witness ==
    /\ pc = "done"
    /\ Len(zip_files) = 2
    /\ ~Valid(ArchiveAt(zip_files[1]))
    /\ Valid(ArchiveAt(zip_files[2]))
    /\ added_count = 1

\* C3: main() returns 1 exactly when local/ does not exist, and then no
\* archive was opened and the registrar never invoked; every other run
\* returns 0.
C3_ExitStatus ==
    /\ ~dirExists => (log = <<>> /\ openZips = {} /\ proc = <<>>)
    /\ pc = "done" => /\ exit \in {<<0>>, <<1>>}
                      /\ exit = <<1>> <=> ~dirExists
                      /\ exit = <<0>> <=> dirExists
    /\ pc # "done" => exit = <<>>

\* The run over a missing local/ has returned.
C3_Witness ==
    /\ pc = "done"
    /\ ~dirExists
    /\ exit = <<1>>

FirstIdLineResult(text) ==
    IF IdLines(text) = {} THEN None
    ELSE IF IdValue(text, MinOf(IdLines(text))) = <<>> THEN None
    ELSE IdValue(text, MinOf(IdLines(text)))

\* What the loop computes: the first "id=" line with a non-empty value decides.
FirstNonEmptyIdResult(text) ==
    LET good == NonEmptyIdLines(text)
    IN  IF good = {} THEN None ELSE IdValue(text, MinOf(good))

ExtractDone == pc \in {"if", "add_track"} \/ (pc = "for" /\ idx > 0)

\* C5 as written: for an archive with both markers and a module.prop, the
\* result of extract_module_id is the trimmed value of the first line that,
\* trimmed, begins with "id="; an empty value there means no identifier and
\* the archive is skipped, however many "id=" lines follow.
C5_FirstIdLineDecides ==
    \A p \in ScannedPaths :
        (ExtractDone /\ zip_file = p /\ ~ArchiveAt(p).corrupt /\ HasMarkers(ArchiveAt(p))
            /\ E_prop \in ArchiveAt(p).names /\ ArchiveAt(p).data.utf8) =>
            /\ module_id = FirstIdLineResult(ArchiveAt(p).data.text)
            /\ pc # "if" =>
                  (EventsAt({"skip"}, p) # {} <=> FirstIdLineResult(ArchiveAt(p).data.text) = None)

\* C5 amended: the result is the trimmed value of the first line that,
\* trimmed, begins with "id=" and has a non-empty trimmed value; "id="
\* lines with an empty value are passed over; only when no line has a
\* non-empty value is the identifier absent and the archive skipped.
C5_FirstNonEmptyIdDecides ==
    \A p \in ScannedPaths :
        (ExtractDone /\ zip_file = p
            /\ ~ArchiveAt(p).corrupt /\ HasMarkers(ArchiveAt(p))
            /\ E_prop \in ArchiveAt(p).names /\ ArchiveAt(p).data.utf8) =>
            /\ module_id = FirstNonEmptyIdResult(ArchiveAt(p).data.text)
            /\ pc # "if" =>
                  (EventsAt({"skip"}, p) # {} <=> FirstNonEmptyIdResult(ArchiveAt(p).data.text) = None)

\* extract_module_id has returned an id taken from a later line, the first
\* "id=" line having an empty value.
C5_Witness ==
    /\ pc = "add_track"
    /\ Cardinality(IdLines(ArchiveAt(zip_file).data.text)) >= 2
    /\ IdValue(ArchiveAt(zip_file).data.text, MinOf(IdLines(ArchiveAt(zip_file).data.text))) = <<>>
    /\ module_id = <<"m">>

\* The argument list after "python cli.py" the claims expect for an
\* identifier and a path
ExpectedArgs(mid, path) ==
    <<<<"t", "r", "a", "c", "k">>, <<"-", "-", "a", "d", "d">>,
      <<"i", "d", "=">> \o mid,
      <<"u", "p", "d", "a", "t", "e", "_", "t", "o", "=">> \o path[Len(path)],
      <<"c", "h", "a", "n", "g", "e", "l", "o", "g", "=">>>>

\* C6: for every well-formed archive with identifier X at path P the
\* registrar is run exactly once, with the arguments
\* track --add id=X update_to=<basename of P> changelog=, and the added count
\* goes up by exactly one for it.
C6_RegistrarArguments ==
    /\ \A p \in ScannedPaths :
          LET expected == ExpectedArgs(FirstNonEmptyIdResult(ArchiveAt(p).data.text), p)
          IN  \A i \in EventsAt({"add_track", "start", "launchfail", "exit"}, p) :
                 /\ Len(log[i].cmd) = 7
                 /\ SubSeq(log[i].cmd, 3, 7) = expected
    /\ added_count = Cardinality(EventsOf({"count"}))
    /\ pc = "done" =>
          \A p \in ValidPaths :
              /\ Cardinality(EventsAt({"add_track"}, p)) = 1
              /\ Cardinality(EventsAt({"start", "launchfail"}, p)) = 1
              /\ Cardinality(EventsAt({"count"}, p)) = 1

\* The registrar runs for b.zip, whose module.prop has the id "m=k".
C6_Witness ==
    /\ proc # <<>>
    /\ zip_file = <<S_local, <<"b", ".", "z", "i", "p">>>>
    /\ proc[5] = <<"i", "d", "=", "m", "=", "k">>
    /\ proc[6] = S_updateTo \o <<"b", ".", "z", "i", "p">>

\* C7: a per-file error (archive unreadable, module.prop undecodable,
\* registrar exit code nonzero, registrar not launchable) stops nothing and
\* repeats nothing: no archive is opened twice, no registrar invocation is
\* attempted twice, and a run over an existing local/ ends with status 0
\* after attempting every file once.
C7_ErrorsAbsorbedNoRetry ==
    /\ \A p \in ScannedPaths :
          /\ Cardinality(EventsAt({"open", "openfail"}, p)) <= 1
          /\ Cardinality(EventsAt({"add_track"}, p)) <= 1
          /\ Cardinality(EventsAt({"start", "launchfail"}, p)) <= 1
          /\ Cardinality(EventsAt({"exit"}, p)) <= 1
    /\ (pc = "done" /\ dirExists) =>
          /\ exit = <<0>>
          /\ \A p \in ScannedPaths :
                /\ Cardinality(EventsAt({"open", "openfail"}, p)) = 1
                /\ Cardinality(EventsAt({"skip", "count"}, p)) = 1
                /\ Cardinality(EventsAt({"start", "launchfail"}, p))
                      = Cardinality(EventsAt({"add_track"}, p))

\* A finished run whose first file's registrar could not be launched and
\* whose second file's registrar exited with a nonzero code.
C7_Witness ==
    /\ pc = "done"
    /\ Len(zip_files) = 2
    /\ EventsAt({"launchfail"}, zip_files[1]) # {}
    /\ EventsAt({"exit"}, zip_files[2]) # {}
    /\ OutAt({"Failed"}) # {}
    /\ exit = <<0>>

\* C8: in a run that found an archive the summary is printed only after
\* every file has been processed; the sync and index hints are printed, in
\* that order and right after the summary, exactly when added_count > 0.
C8_SummaryThenHints ==
    /\ OutAt({"Summary"}) # {} =>
          /\ idx = Len(zip_files)
          /\ \A p \in ScannedPaths : EventsAt({"skip", "count"}, p) # {}
          /\ \A i \in OutAt({"Processing"}) : \A j \in OutAt({"Summary"}) : i < j
    /\ OutAt({"HintSync", "HintIndex"}) # {} => pc = "done"
    /\ (pc = "done" /\ zip_files # <<>>) =>
          /\ Cardinality(OutAt({"Summary"})) = 1
          /\ IF added_count > 0
             THEN /\ out[Len(out) - 2].tag = "Summary"
                  /\ out[Len(out) - 1].tag = "HintSync"
                  /\ out[Len(out)].tag = "HintIndex"
                  /\ Cardinality(OutAt({"HintSync", "HintIndex"})) = 2
             ELSE /\ out[Len(out)].tag = "Summary"
                  /\ OutAt({"HintSync", "HintIndex"}) = {}

\* A finished run that added a track and ended with the index hint.
C8_Witness ==
    /\ pc = "done"
    /\ added_count > 0
    /\ out[Len(out)].tag = "HintIndex"

\* C9: at most one archive is open at any time, and an archive
\* extract_module_id opened is closed again, whatever the outcome, before
\* the function returns, so before the next archive is opened and before
\* main() returns.
C9_ArchiveClosed ==
    /\ Cardinality(openZips) <= 1
    /\ openZips # {} => (pc \in {"markers", "prop", "read", "parse"} /\ openZips = {zip_file})
    /\ \A i \in EventsOf({"open"}) :
          \/ /\ i = Len(log)
             /\ openZips = {log[i].path}
          \/ /\ i < Len(log)
             /\ log[i + 1].op = "close"
             /\ log[i + 1].path = log[i].path

\* A finished run that opened two archives, the second one's module.prop
\* not being UTF-8.
C9_Witness ==
    /\ pc = "done"
    /\ Cardinality(EventsOf({"open"})) = 2
    /\ ~ArchiveAt(zip_files[2]).corrupt
    /\ HasMarkers(ArchiveAt(zip_files[2]))
    /\ ~ArchiveAt(zip_files[2]).data.utf8

\* The operations the log holds for one path, in order
OpsOf(path) ==
    LET onPath(e) == e.path = path
        evs == SelectSeq(log, onPath)
    IN  [i \in 1..Len(evs) |-> evs[i].op]

IsPrefix(s, t) == Len(s) <= Len(t) /\ s = SubSeq(t, 1, Len(s))

\* The orders of steps the claim allows for one file
FileRuns ==
    {<<"openfail", "skip">>,
     <<"open", "close", "skip">>,
     <<"open", "close", "add_track", "start", "exit", "count">>,
     <<"open", "close", "add_track", "launchfail", "count">>}

\* add_track invocations that have returned: the registrar has exited, or
\* could not be launched
Returned == Cardinality(EventsOf({"exit", "launchfail"}))

\* Files one at a time in scan order, each once, the steps of each in the
\* claimed order, and no archive open while a registrar runs
StepOrder ==
    /\ idx <= Len(zip_files)
    /\ LET isProcessing(m) == m.tag = "Processing"
           started == SelectSeq(out, isProcessing)
       IN  /\ Len(started) = idx
           /\ \A i \in 1..idx : started[i].text = zip_files[i][2]
    /\ \A a \in 1..(Len(log) - 1) :
          PosOf(log[a].path) <= PosOf(log[a + 1].path)
    /\ \A k \in 1..Len(zip_files) :
          LET ops == OpsOf(zip_files[k])
          IN  /\ k < idx => ops \in FileRuns
              /\ k = idx => \E f \in FileRuns : IsPrefix(ops, f)
              /\ (k = idx /\ pc \in {"for", "summary", "hints", "done"}) => ops \in FileRuns
              /\ k > idx => ops = <<>>
    /\ proc # <<>> =>
          /\ openZips = {}
          /\ pc = "wait"
          /\ log[Len(log)].op = "start"
    /\ openZips # {} => proc = <<>>

\* C10 as written: files are handled one at a time in scan order, each
\* once, with the steps open, close, registrar start, registrar exit, count
\* in that order; no archive is open while a registrar runs; and at every
\* point added_count is the number of registrar invocations that have
\* returned and is at most the number of files started.
C10_CountEqualsReturned ==
    /\ StepOrder
    /\ added_count = Returned
    /\ added_count <= idx

\* C10 amended: the same order of steps; added_count is the number of
\* returned registrar invocations at every point except between an
\* invocation's return and the increment that follows it, where it is one
\* less; it counts invocations that failed or could not be launched too,
\* and is at most the number of files started.
C10_CountLagsByAtMostOne ==
    /\ StepOrder
    /\ added_count = Cardinality(EventsOf({"count"}))
    /\ pc # "count" => added_count = Returned
    /\ pc = "count" => added_count + 1 = Returned
    /\ added_count <= idx

\* The second file's registrar has returned and is not yet counted, the
\* first file's having been counted.
C10_Witness ==
    /\ pc = "count"
    /\ idx = 2
    /\ added_count = 1
    /\ Returned = 2

====
